---------------------------- MODULE Spec2Model ----------------------------
(***************************************************************************)
(* SyncPad: the note store and the request handlers of                     *)
(* controllers/noteController.js and controllers/spectatorController.js,   *)
(* over the Note schema of models/Note.js.                                 *)
(*                                                                         *)
(* A text (title, content) is a sequence of atoms; an atom is one          *)
(* character, or a run of characters whose only relevant property is its   *)
(* length (Width).  A form field that is absent is the empty string / the  *)
(* empty sequence: the handlers only test such fields for truthiness or    *)
(* compare them with 'on', and JavaScript treats undefined and '' alike    *)
(* there.                                                                  *)
(*                                                                         *)
(* The Note fields that no handler ever reads (date, renamed,              *)
(* originalTitle, shareable, shareLink, collaborators, createdAt,          *)
(* updatedAt) are not part of the modelled record.                         *)
(***************************************************************************)
EXTENDS Integers, Sequences, FiniteSets, TLC

VARIABLES
    notes,      \* the Note collection: note id -> document
    nextId,     \* the id the next created note gets (ids are never reused)
    resp,       \* the response of the request being answered, NoResp when idle
    retired,    \* history: <<id, token>> for every share link that stopped resolving
    toggles,    \* the toggleSharing requests that run step by step, by slot
    conn,       \* connectDB: the attempt in progress, the retry timers, the outcome
    accepting,  \* whether the database accepts connections at the moment
    messages,   \* the Message collection: message id -> document
    nextMsg,    \* the id the next message gets
    reply,      \* the response of the messaging or account request being answered
    passwords,  \* the User collection: user -> password
    session,    \* the forgot-password data of each client's session
    answered,   \* history: <<client, user>> when client gave user's security answer
    uniqueIds,  \* the User collection: the uniqueId values stored
    hook,       \* the pre-save hook of the user being saved
    now         \* Date.now()

noteVars == <<notes, nextId, resp, retired, toggles>>

connVars == <<conn, accepting>>

messageVars == <<messages, nextMsg>>

accountVars == <<passwords, session, answered, uniqueIds, hook, now>>

\* What the note handlers leave alone.
others == <<connVars, messageVars, reply, accountVars>>

vars == <<noteVars, others>>

(***************************************************************************)
(* Bounds and input sets                                                   *)
(***************************************************************************)
MaxNotes == 2

Users == {"u1", "u2"}

NoSession == "none"

Sessions == Users \cup {NoSession}

NoteIds == 1..MaxNotes

Tokens == {"share-1", "share-2"}

\* The requests that can be in progress at the same time.
Slots == {"r1", "r2"}

Unset == "<unset>"

Passcodes == {"", "1234", "0000"}

OnOff == {"on", ""}

(***************************************************************************)
(* Texts                                                                   *)
(***************************************************************************)
MaxTitleLength == 100

MaxContentLength == 10000

LongRun == "x*101"

HugeRun == "x*10001"

Width(a) ==
    CASE a = LongRun -> MaxTitleLength + 1
      [] a = HugeRun -> MaxContentLength + 1
      [] a = "Untitled Note" -> 13
      [] a = "[Encrypted - Passcode Required]" -> 31
      [] OTHER -> 1

RECURSIVE StrLen(_)
StrLen(s) == IF s = <<>> THEN 0 ELSE Width(Head(s)) + StrLen(Tail(s))

RECURSIVE TrimLeft(_)
TrimLeft(s) == IF s # <<>> /\ Head(s) = " " THEN TrimLeft(Tail(s)) ELSE s

RECURSIVE TrimRight(_)
TrimRight(s) ==
    IF s # <<>> /\ s[Len(s)] = " " THEN TrimRight(SubSeq(s, 1, Len(s) - 1)) ELSE s

Trim(s) == TrimRight(TrimLeft(s))

Stripped == {"<", ">", "javascript:", "onload="}

Keep(a) == a \notin Stripped

sanitizeInput(input) == SelectSeq(Trim(input), Keep)

UntitledNote == <<"Untitled Note">>

Placeholder == <<"[Encrypted - Passcode Required]">>

\* JavaScript's a || b on strings: the first operand when it is truthy.
Or(a, b) == IF a # "" THEN a ELSE b

OrText(a, b) == IF a # <<>> THEN a ELSE b


(***************************************************************************)
(* The Note collection (models/Note.js) and Mongoose's save                *)
(***************************************************************************)
\* The document with a fixed owner instead of the session user.
NoteOfFirstUser(owner, title, content, encrypted, passcode, editPermissions, disableEdit, isPublic, publicAccessToken) ==
    [owner |-> "u1", title |-> title, content |-> content,
     encrypted |-> encrypted, passcode |-> passcode,
     editPermissions |-> editPermissions, disableEdit |-> disableEdit,
     isPublic |-> isPublic, publicAccessToken |-> publicAccessToken]

\* new Note({...}) as createNote builds it.
Note(owner, title, content, encrypted, passcode, editPermissions, disableEdit, isPublic, publicAccessToken) ==
    [owner |-> owner, title |-> title, content |-> content,
     encrypted |-> encrypted, passcode |-> passcode,
     editPermissions |-> editPermissions, disableEdit |-> disableEdit,
     isPublic |-> isPublic, publicAccessToken |-> publicAccessToken]

\* !note.publicAccessToken: the field is missing or the empty string.
NoToken(t) == t = "" \/ t = Unset

\* required: true on a String path rejects a missing value and ''.
RequiredOk(doc) == doc.title # <<>> /\ doc.content # <<>>

\* publicAccessToken: unique, sparse.  A sparse index leaves out only the
\* documents that lack the field; '' is a value like any other.
\* The lookup restricted to the notes that are shared at the moment.
TokenTakenAmongPublic(db, t) ==
    \E j \in DOMAIN db : db[j].isPublic /\ db[j].publicAccessToken = t

\* A document of the collection holds publicAccessToken t: what
\* Note.findOne({ publicAccessToken }) and the index on the path look up.
TokenTaken(db, t) == \E j \in DOMAIN db : db[j].publicAccessToken = t

Others(db, id) == [j \in DOMAIN db \ {id} |-> db[j]]

\* publicAccessToken: unique, sparse.  A sparse index leaves out only the
\* documents that lack the field; '' is a value like any other.
UniqueOk(db, id, doc) ==
    \/ doc.publicAccessToken = Unset
    \/ ~TokenTaken(Others(db, id), doc.publicAccessToken)

\* Whether doc.save() of document id resolves (it throws otherwise).
SaveOk(db, id, doc) == RequiredOk(doc) /\ UniqueOk(db, id, doc)

\* The loop `while (!isUnique)`: its result is a generated candidate that no
\* stored note holds.
FreshTokens(db) == {t \in Tokens : ~TokenTaken(db, t)}

(***************************************************************************)
(* Responses                                                               *)
(***************************************************************************)
NoData == {}

\* The note object handed to a view.
Rendered(id, doc) ==
    [id |-> id, title |-> doc.title, content |-> doc.content,
     passcode |-> doc.passcode]

Hidden == "<not selected>"

NoResp ==
    [op |-> "none", user |-> NoSession, id |-> 0, arg |-> "", status |-> 0,
     view |-> "", data |-> NoData, requiresPasscode |-> FALSE,
     editPermission |-> FALSE, isPublic |-> FALSE, shareLink |-> <<>>,
     error |-> ""]

Req(op, user, id, arg) ==
    [NoResp EXCEPT !.op = op, !.user = user, !.id = id, !.arg = arg]

Send(r, status, view) == [r EXCEPT !.status = status, !.view = view]

Render(r, status, view, data) ==
    [r EXCEPT !.status = status, !.view = view, !.data = data]

RenderError(r, view, data, error) ==
    [r EXCEPT !.status = 200, !.view = view, !.data = data, !.error = error]

Redirect(r, to) == [r EXCEPT !.status = 302, !.view = to]

\* Note.findById(id) as a set: the rendered note, or nothing for null.
FindRendered(db, id) == IF id \in DOMAIN db THEN {Rendered(id, db[id])} ELSE NoData


(***************************************************************************)
(* Request bodies                                                          *)
(***************************************************************************)
Body(title, content, encrypted, passcode, passcodeMobile, passcodeDesktop, shareable, editPermissions, disableEdit) ==
    [title |-> title, content |-> content, encrypted |-> encrypted,
     passcode |-> passcode, passcodeMobile |-> passcodeMobile,
     passcodeDesktop |-> passcodeDesktop, shareable |-> shareable,
     editPermissions |-> editPermissions, disableEdit |-> disableEdit]

\* const finalPasscode = passcode || passcodeMobile || passcodeDesktop || ''
finalPasscode(b) == Or(Or(Or(b.passcode, b.passcodeMobile), b.passcodeDesktop), "")

\* title && title.trim().length > 0
NonBlank(text) == text # <<>> /\ Len(Trim(text)) > 0

(***************************************************************************)
(* Read handlers                                                           *)
(***************************************************************************)
\* A user id that is the owner's whatever the note: the ownership test gone.
isOwnerAnyUser(db, user, id) == user # NoSession

\* Ownership of any stored note passing for ownership of this one.
isOwnerOfSomeNote(db, user, id) ==
    user # NoSession /\ \E j \in DOMAIN db : db[j].owner = user

\* The ownership test failing for everybody.
isOwnerNobody(db, user, id) == FALSE

\* req.session && req.session.userId && note.owner.toString() === req.session.userId
isOwner(db, user, id) == user # NoSession /\ db[id].owner = user

\* An empty passcode passing for a match of an empty stored passcode.
passcodeRejectedUnlessEqual(providedPasscode, passcode) ==
    providedPasscode # passcode

\* !providedPasscode || providedPasscode !== note.passcode
passcodeRejected(providedPasscode, passcode) ==
    providedPasscode = "" \/ providedPasscode # passcode

\* The edit flag without the owner's override of it.
editPermissionOf(note, owner) == owner \/ note.editPermissions

\* const editPermission = isOwner || (note.editPermissions && !note.disableEdit)
editPermission(note, owner) ==
    owner \/ (note.editPermissions /\ ~note.disableEdit)

\* getNote: GET /note/:id, no authentication required.
getNote(db, user, id, query, body) ==
    LET providedPasscode == Or(query, body)
        r == Req("getNote", user, id, providedPasscode)
        note == db[id]
    IN  IF id \notin DOMAIN db THEN Send(r, 404, "Note not found")
        ELSE IF ~isOwner(db, user, id) /\ ~note.isPublic
        THEN Send(r, 403, "Access denied")
        ELSE IF note.encrypted /\ ~isOwner(db, user, id)
                /\ passcodeRejected(providedPasscode, note.passcode)
        THEN [Render(r, 200, "note",
                     {[Rendered(id, note) EXCEPT !.content = Placeholder]})
                EXCEPT !.requiresPasscode = TRUE,
                       !.isPublic = note.isPublic,
                       !.error = "This note is encrypted"]
        ELSE [Render(r, 200, "note", {Rendered(id, note)})
                EXCEPT !.requiresPasscode = FALSE,
                       !.isPublic = note.isPublic,
                       !.editPermission =
                           editPermission(note, isOwner(db, user, id))]

\* The lookup by token alone, whether the note is shared or not.
SharedMatchesAnyNote(db, token) ==
    {j \in DOMAIN db : db[j].publicAccessToken = token}

\* Note.findOne({ publicAccessToken: token, isPublic: true })
SharedMatches(db, token) ==
    {j \in DOMAIN db : db[j].publicAccessToken = token /\ db[j].isPublic}

\* getSharedNote: GET /shared/:token, no authentication required.
getSharedNote(db, user, token) ==
    LET r == Req("getSharedNote", user, 0, token)
    IN  IF SharedMatches(db, token) = {}
        THEN [Send(r, 404, "error") EXCEPT !.error = "Shared note not found"]
        ELSE LET j == CHOOSE k \in SharedMatches(db, token) : TRUE
             IN  [Render(r, 200, "shared-note", {Rendered(j, db[j])})
                    EXCEPT !.id = j]

\* getEditPage: GET /edit/:id behind requireAuth.
getEditPage(db, user, id) ==
    LET r == Req("getEditPage", user, id, "")
    IN  IF user = NoSession THEN Redirect(r, "/login")
        ELSE IF id \notin DOMAIN db THEN Send(r, 404, "Note not found")
        ELSE IF db[id].owner # user THEN Send(r, 403, "Access denied")
        ELSE [Render(r, 200, "edit", {Rendered(id, db[id])})
                EXCEPT !.editPermission =
                           db[id].editPermissions \/ db[id].owner = user,
                       !.isPublic = db[id].isPublic]

\* getUserPublicNotes: GET /user/:userId/notes behind requireAuth.
\* .select('title content date createdAt') leaves the passcode out.
getUserPublicNotes(db, user, userId) ==
    LET r == Req("getUserPublicNotes", user, 0, userId)
    IN  IF user = NoSession THEN Redirect(r, "/login")
        ELSE IF userId \notin Users
        THEN [Send(r, 404, "error") EXCEPT !.error = "User not found"]
        ELSE Render(r, 200, "spectator-notes",
                    {[Rendered(j, db[j]) EXCEPT !.passcode = Hidden] :
                        j \in {k \in DOMAIN db :
                                 db[k].owner = userId /\ db[k].isPublic}})


(***************************************************************************)
(* Write handlers.  Each yields the response and the collection after the  *)
(* request.  The part of a handler before its token loop is a definition   *)
(* of its own (...Early: the response of an early return, NoResp when the  *)
(* handler goes on); cand is the candidate the token loop ends with.       *)
(***************************************************************************)
Out(r, db) == [resp |-> r, db |-> db]

noteTitle(b) == IF NonBlank(b.title) THEN sanitizeInput(b.title) ELSE UntitledNote

MinPasscodeLength == 4

\* The check that only asks for a passcode, of whatever length.
passcodeInvalidWhenMissing(encrypted, passcode) ==
    encrypted = "on" /\ passcode = ""

\* encrypted === 'on' && (!finalPasscode || finalPasscode.length < 4)
passcodeInvalid(encrypted, passcode) ==
    encrypted = "on" /\ (passcode = "" \/ Len(passcode) < MinPasscodeLength)

createNoteEarly(user, b) ==
    LET r == Req("createNote", user, 0, "")
        hasContent == NonBlank(b.content)
        hasTitle == NonBlank(b.title)
    IN  IF user = NoSession THEN Redirect(r, "/login")
        ELSE IF ~hasContent /\ ~hasTitle
        THEN RenderError(r, "create", NoData, "Note cannot be empty")
        ELSE IF StrLen(noteTitle(b)) > MaxTitleLength
        THEN RenderError(r, "create", NoData, "title too long")
        ELSE IF b.content # <<>> /\ StrLen(b.content) > MaxContentLength
        THEN RenderError(r, "create", NoData, "content too long")
        ELSE IF passcodeInvalid(b.encrypted, finalPasscode(b))
        THEN RenderError(r, "create", NoData, "Passcode is required")
        ELSE NoResp

\* createNote: POST /createnote behind requireAuth.
createNote(db, newId, user, b, cand) ==
    LET r == Req("createNote", user, 0, "")
        publicAccessToken == IF b.shareable = "on" THEN cand ELSE ""
        newNote == Note(user, noteTitle(b),
                        OrText(sanitizeInput(b.content), <<>>),
                        b.encrypted = "on", finalPasscode(b),
                        b.editPermissions = "on", b.disableEdit = "on",
                        b.shareable = "on", publicAccessToken)
    IN  IF createNoteEarly(user, b) # NoResp
        THEN Out(createNoteEarly(user, b), db)
        ELSE IF SaveOk(db, newId, newNote)
        THEN Out(Redirect(r, "/home"), db @@ (newId :> newNote))
        ELSE Out(RenderError(r, "create", NoData, "An error occurred"), db)

\* The fields updateNote assigns before it looks at the token.
Assigned(note, b) ==
    [note EXCEPT !.title = sanitizeInput(b.title),
                 !.content = OrText(sanitizeInput(b.content), <<>>),
                 !.encrypted = b.encrypted = "on",
                 !.passcode = finalPasscode(b),
                 !.editPermissions = b.editPermissions = "on",
                 !.disableEdit = b.disableEdit = "on"]

\* `// Handle public access token` of updateNote.
HandleToken(note, b, cand) ==
    IF b.shareable = "on" /\ NoToken(note.publicAccessToken)
    THEN [note EXCEPT !.publicAccessToken = cand, !.isPublic = TRUE]
    ELSE IF b.shareable # "on"
    THEN [note EXCEPT !.isPublic = FALSE, !.publicAccessToken = ""]
    ELSE note

updateNoteEarly(db, user, id, b) ==
    LET r == Req("updateNote", user, id, "")
    IN  IF user = NoSession THEN Redirect(r, "/login")
        ELSE IF b.title = <<>> \/ Len(Trim(b.title)) = 0
        THEN RenderError(r, "edit", FindRendered(db, id), "Note title is required")
        ELSE IF StrLen(b.title) > MaxTitleLength
        THEN RenderError(r, "edit", FindRendered(db, id), "title too long")
        ELSE IF b.content # <<>> /\ StrLen(b.content) > MaxContentLength
        THEN RenderError(r, "edit", FindRendered(db, id), "content too long")
        ELSE IF id \notin DOMAIN db THEN Send(r, 404, "Note not found")
        ELSE IF db[id].owner # user THEN Send(r, 403, "Access denied")
        ELSE NoResp

\* updateNote: POST /update/:id behind requireAuth.
updateNote(db, user, id, b, cand) ==
    LET r == Req("updateNote", user, id, "")
        note == HandleToken(Assigned(db[id], b), b, cand)
    IN  IF updateNoteEarly(db, user, id, b) # NoResp
        THEN Out(updateNoteEarly(db, user, id, b), db)
        ELSE IF SaveOk(db, id, note)
        THEN Out(Redirect(r, "/note/:id"), [db EXCEPT ![id] = note])
        ELSE Out(RenderError(r, "edit", FindRendered(db, id),
                             "An error occurred"), db)

\* The opening checks without the ownership test.
ownerOnlyEarlyAnyUser(r, db, user, id) ==
    IF user = NoSession THEN Redirect(r, "/login")
    ELSE IF id \notin DOMAIN db THEN Send(r, 404, "Note not found")
    ELSE NoResp

\* The checks that open deleteNote and toggleSharing.
ownerOnlyEarly(r, db, user, id) ==
    IF user = NoSession THEN Redirect(r, "/login")
    ELSE IF id \notin DOMAIN db THEN Send(r, 404, "Note not found")
    ELSE IF db[id].owner # user THEN Send(r, 403, "Access denied")
    ELSE NoResp

\* deleteNote: GET /delete/:id behind requireAuth.
deleteNote(db, user, id) ==
    LET r == Req("deleteNote", user, id, "")
    IN  IF ownerOnlyEarly(r, db, user, id) # NoResp
        THEN Out(ownerOnlyEarly(r, db, user, id), db)
        ELSE Out(Redirect(r, "/home"), Others(db, id))

\* `// Toggle sharing` of toggleSharing.
Toggled(note, cand) ==
    LET flipped == [note EXCEPT !.isPublic = ~note.isPublic]
    IN  IF flipped.isPublic /\ NoToken(flipped.publicAccessToken)
        THEN [flipped EXCEPT !.publicAccessToken = cand]
        ELSE flipped

\* No link, whatever the token.
ShareLinkNull(token) == <<>>

\* `/shared/${note.publicAccessToken}`
ShareLink(token) == <<"/shared/", token>>

\* toggleSharing: POST /toggle-sharing/:id behind requireAuth.
toggleSharing(db, user, id, cand) ==
    LET r == Req("toggleSharing", user, id, "")
        note == Toggled(db[id], cand)
    IN  IF ownerOnlyEarly(r, db, user, id) # NoResp
        THEN Out(ownerOnlyEarly(r, db, user, id), db)
        ELSE IF SaveOk(db, id, note)
        THEN Out([Send(r, 200, "json")
                    EXCEPT !.isPublic = note.isPublic,
                           !.shareLink = IF note.isPublic
                                         THEN ShareLink(note.publicAccessToken)
                                         ELSE <<>>],
                 [db EXCEPT ![id] = note])
        ELSE Out(Send(r, 500, "Error toggling sharing"), db)

(***************************************************************************)
(* toggleSharing step by step: the awaits of the handler (findById, the    *)
(* findOne of each loop iteration, save) are the points where another      *)
(* request can run.                                                        *)
(***************************************************************************)
NoNote == Note(NoSession, <<>>, <<>>, FALSE, "", FALSE, FALSE, FALSE, "")

\* A slot without a request.  note is the document the request loaded, with
\* the assignments the handler made to it; publicAccessToken is the local
\* variable of the token loop.
Idle ==
    [pc |-> "idle", user |-> NoSession, id |-> 0, note |-> NoNote,
     publicAccessToken |-> "", resp |-> NoResp]

\* const note = await Note.findById(req.params.id), the checks, and
\* note.isPublic = !note.isPublic.
Found(db, user, id) ==
    LET r == Req("toggleSharing", user, id, "")
        flipped == [db[id] EXCEPT !.isPublic = ~db[id].isPublic]
    IN  IF ownerOnlyEarly(r, db, user, id) # NoResp
        THEN [Idle EXCEPT !.pc = "done", !.user = user, !.id = id,
                          !.resp = ownerOnlyEarly(r, db, user, id)]
        ELSE [Idle EXCEPT !.pc = IF flipped.isPublic
                                    /\ NoToken(flipped.publicAccessToken)
                                 THEN "loop" ELSE "save",
                          !.user = user, !.id = id, !.note = flipped]

\* One iteration of `while (!isUnique)`: generate, look up.
Tried(db, t, generated) ==
    IF TokenTaken(db, generated)
    THEN [t EXCEPT !.publicAccessToken = generated]
    ELSE [t EXCEPT !.publicAccessToken = generated,
                   !.note.publicAccessToken = generated,
                   !.pc = "save"]

\* What save() of the loaded document writes: the paths the handler
\* assigned, onto the stored document.
Written(db, t) ==
    [db[t.id] EXCEPT !.isPublic = t.note.isPublic,
                     !.publicAccessToken =
                         IF t.publicAccessToken # ""
                         THEN t.note.publicAccessToken ELSE @]

\* await note.save() and res.json(...), or the catch block.
Saved(db, t) ==
    LET r == Req("toggleSharing", t.user, t.id, "")
    IN  IF /\ t.id \in DOMAIN db
           /\ RequiredOk(t.note)
           /\ UniqueOk(db, t.id, Written(db, t))
        THEN Out([Send(r, 200, "json")
                    EXCEPT !.isPublic = t.note.isPublic,
                           !.shareLink = IF t.note.isPublic
                                         THEN ShareLink(t.note.publicAccessToken)
                                         ELSE <<>>],
                 [db EXCEPT ![t.id] = Written(db, t)])
        ELSE Out(Send(r, 500, "Error toggling sharing"), db)

(***************************************************************************)
(* connectDB (config/database.js)                                          *)
(***************************************************************************)
\* connectDB() is running: mongoose.connect is awaited.  timers is the number
\* of setTimeout(connectDB, 5000) that are pending; retried records that one
\* of them has fired.
Connecting == [pc |-> "connecting", timers |-> 0, retried |-> FALSE]

(***************************************************************************)
(* Messages (controllers/messageController.js, models/Message.js)          *)
(***************************************************************************)
\* The answer to a messaging or account request: who asked (the session's user
\* or the client), about what, the HTTP status, the step of the page that is
\* rendered, and the unreadCount of the JSON body.
NoReply == [op |-> "none", user |-> NoSession, arg |-> "", status |-> 0, step |-> "", count |-> 0]

Reply(op, user, arg, status, step) == [op |-> op, user |-> user, arg |-> arg, status |-> status, step |-> step, count |-> 0]

(***************************************************************************)
(* Accounts: forgot-password (controllers/profileController.js,            *)
(* controllers/authController.js) and the pre-save hook of models/User.js  *)
(***************************************************************************)
Clients == {"c1", "c2"}

InitialPassword == "password123"

NoUser == "<no user>"

\* A session without forgotPasswordUserId and forgotPasswordVerified.
\* forgotPasswordEmail, set and deleted together with forgotPasswordUserId
\* and only displayed, is left out.
NoSessionData == [forgotPasswordUserId |-> NoUser, forgotPasswordVerified |-> FALSE]

\* let uniqueId; before the first candidate, and this.uniqueId of a new user.
NoId == ""

\* No user is being saved.
NoHook == [pc |-> "idle", name |-> "", attempts |-> 0, isUnique |-> FALSE, uniqueId |-> NoId]

(***************************************************************************)
(* Requests                                                                *)
(***************************************************************************)
Sample == <<"a">>

SampleContent == <<"c">>

\* Valid title and content, every combination of the options.
OptionBodies ==
    {Body(Sample, SampleContent, e, IF e = "on" THEN "1234" ELSE "", "", "",
          s, ep, de) :
        e \in OnOff, s \in OnOff, ep \in OnOff, de \in OnOff}

\* One body for each validation and normalisation case.
EdgeBodies ==
    {Body(<<>>, <<>>, "", "", "", "", "", "", ""),
     Body(<<" ">>, <<" ">>, "", "", "", "", "", "", ""),
     Body(<<>>, SampleContent, "", "", "", "", "", "", ""),
     Body(Sample, <<>>, "", "", "", "", "", "", ""),
     Body(<<"<">>, SampleContent, "", "", "", "", "", "", ""),
     Body(<<" ", "a", " ">>, <<"<", "c">>, "", "", "", "", "", "", ""),
     Body(<<LongRun>>, SampleContent, "", "", "", "", "", "", ""),
     Body(Sample, <<HugeRun>>, "", "", "", "", "", "", ""),
     Body(Sample, SampleContent, "on", "abc", "", "", "", "", ""),
     Body(Sample, SampleContent, "on", "", "", "", "on", "", ""),
     Body(Sample, SampleContent, "", "1234", "", "", "", "", ""),
     Body(Sample, SampleContent, "on", "", "1234", "", "", "", ""),
     Body(Sample, SampleContent, "on", "", "", "1234", "on", "", ""),
     Body(Sample, SampleContent, "on", "abc", "1234", "", "on", "", ""),
     Body(Sample, SampleContent, "on", "", "12", "", "", "", ""),
     Body(Sample, SampleContent, "on", "", "", "123", "", "on", "")}

Bodies == OptionBodies \cup EdgeBodies

\* Valid bodies that differ in the sharing option only.
SharingBodies ==
    {Body(Sample, SampleContent, "", "", "", "", s, "", "") : s \in OnOff}

\* The passcode of a getNote request: (query, body).
PasscodeInputs == {<<"", "">>, <<"1234", "">>, <<"", "1234">>, <<"0000", "">>}

TokenInputs == Tokens \cup {"share-0"}

UserIdInputs == Users \cup {"u0"}

(***************************************************************************)
(* The state machine                                                       *)
(***************************************************************************)
\* The rest of the application at start: app.js has called connectDB(), the
\* collections hold the accounts of Users and no message.
InitOthers ==
    /\ conn = Connecting
    /\ accepting = TRUE
    /\ messages = <<>>
    /\ nextMsg = 1
    /\ reply = NoReply
    /\ passwords = [u \in Users |-> InitialPassword]
    /\ session = [c \in Clients |-> NoSessionData]
    /\ answered = {}
    /\ uniqueIds = {}
    /\ hook = NoHook
    /\ now = 1

Init ==
    /\ notes = <<>>
    /\ nextId = 1
    /\ resp = NoResp
    /\ retired = {}
    /\ toggles = [s \in Slots |-> Idle]
    /\ InitOthers

\* The share links <<id, token>> that resolve: getSharedNote finds note id.
Live(db) ==
    {<<id, db[id].publicAccessToken>> :
        id \in {j \in DOMAIN db : db[j].isPublic /\ ~NoToken(db[j].publicAccessToken)}}

\* The history, kept (track) or left alone.
History(track) ==
    IF track
    THEN retired' = retired \cup (Live(notes) \ Live(notes'))
    ELSE UNCHANGED retired

Apply(out, track) ==
    /\ notes' = out.db
    /\ resp' = out.resp
    /\ History(track)
    /\ UNCHANGED <<toggles, others>>

CreateNote(bodies, track) ==
    /\ resp = NoResp
    /\ nextId <= MaxNotes
    /\ \E user \in Sessions, b \in bodies :
        \E cand \in (IF createNoteEarly(user, b) = NoResp /\ b.shareable = "on"
                     THEN FreshTokens(notes) ELSE {""}) :
            /\ Apply(createNote(notes, nextId, user, b, cand), track)
            /\ nextId' = IF nextId \in DOMAIN notes' THEN nextId + 1 ELSE nextId

UpdateNote(bodies, track) ==
    /\ resp = NoResp
    /\ \E user \in Sessions, id \in NoteIds, b \in bodies :
        \E cand \in (IF /\ updateNoteEarly(notes, user, id, b) = NoResp
                        /\ b.shareable = "on"
                        /\ NoToken(notes[id].publicAccessToken)
                     THEN FreshTokens(notes) ELSE {""}) :
            /\ Apply(updateNote(notes, user, id, b, cand), track)
            /\ UNCHANGED nextId

DeleteNote(track) ==
    /\ resp = NoResp
    /\ \E user \in Sessions, id \in NoteIds :
        /\ Apply(deleteNote(notes, user, id), track)
        /\ UNCHANGED nextId

ToggleSharing(track) ==
    /\ resp = NoResp
    /\ \E user \in Sessions, id \in NoteIds :
        \E cand \in (IF /\ ownerOnlyEarly(NoResp, notes, user, id) = NoResp
                        /\ ~notes[id].isPublic
                        /\ NoToken(notes[id].publicAccessToken)
                     THEN FreshTokens(notes) ELSE {""}) :
            /\ Apply(toggleSharing(notes, user, id, cand), track)
            /\ UNCHANGED nextId

\* A read that also empties the collection.
GetNoteAndWrite ==
    /\ resp = NoResp
    /\ \E user \in Sessions, id \in NoteIds, p \in PasscodeInputs :
        /\ resp' = getNote(notes, user, id, p[1], p[2])
        /\ notes' = <<>>
        /\ UNCHANGED <<nextId, retired, toggles, others>>

GetNote ==
    /\ resp = NoResp
    /\ \E user \in Sessions, id \in NoteIds, p \in PasscodeInputs :
        /\ resp' = getNote(notes, user, id, p[1], p[2])
        /\ UNCHANGED <<notes, nextId, retired, toggles, others>>

GetSharedNote ==
    /\ resp = NoResp
    /\ \E user \in Sessions, token \in TokenInputs :
        /\ resp' = getSharedNote(notes, user, token)
        /\ UNCHANGED <<notes, nextId, retired, toggles, others>>

GetEditPage ==
    /\ resp = NoResp
    /\ \E user \in Sessions, id \in NoteIds :
        /\ resp' = getEditPage(notes, user, id)
        /\ UNCHANGED <<notes, nextId, retired, toggles, others>>

GetUserPublicNotes ==
    /\ resp = NoResp
    /\ \E user \in Sessions, userId \in UserIdInputs :
        /\ resp' = getUserPublicNotes(notes, user, userId)
        /\ UNCHANGED <<notes, nextId, retired, toggles, others>>

\* res.render / res.send / res.redirect / res.json has written the response:
\* the request is over.
ResponseSent ==
    /\ resp # NoResp
    /\ resp' = NoResp
    /\ UNCHANGED <<notes, nextId, retired, toggles, others>>

Next ==
    \/ ResponseSent
    \/ CreateNote(Bodies, FALSE)
    \/ UpdateNote(Bodies, FALSE)
    \/ DeleteNote(FALSE)
    \/ ToggleSharing(FALSE)
    \/ GetNote
    \/ GetSharedNote
    \/ GetEditPage
    \/ GetUserPublicNotes

\* Every handler, every request body; the history is not kept.
Spec == Init /\ [][Next]_vars

NextSharing ==
    \/ ResponseSent
    \/ CreateNote(SharingBodies, TRUE)
    \/ UpdateNote(SharingBodies, TRUE)
    \/ DeleteNote(TRUE)
    \/ ToggleSharing(TRUE)
    \/ GetSharedNote

\* The handlers that decide the life of a share link, with the history of
\* the links that stopped resolving.
SharingSpec == Init /\ [][NextSharing]_vars


ToggleFind(s) ==
    /\ toggles[s].pc = "idle"
    /\ \E user \in Sessions, id \in NoteIds :
          toggles' = [toggles EXCEPT ![s] = Found(notes, user, id)]
    /\ UNCHANGED <<notes, nextId, resp, retired, others>>

ToggleTry(s) ==
    /\ toggles[s].pc = "loop"
    /\ \E generated \in Tokens :
          toggles' = [toggles EXCEPT ![s] = Tried(notes, toggles[s], generated)]
    /\ UNCHANGED <<notes, nextId, resp, retired, others>>

ToggleSave(s) ==
    /\ toggles[s].pc = "save"
    /\ notes' = Saved(notes, toggles[s]).db
    /\ toggles' = [toggles EXCEPT ![s].pc = "done",
                                  ![s].resp = Saved(notes, toggles[s]).resp]
    /\ UNCHANGED <<nextId, resp, retired, others>>

\* The response of the request in slot s has been written.
ToggleEnd(s) ==
    /\ toggles[s].pc = "done"
    /\ toggles' = [toggles EXCEPT ![s] = Idle]
    /\ UNCHANGED <<notes, nextId, resp, retired, others>>

NextConcurrent ==
    \/ ResponseSent
    \/ CreateNote(SharingBodies, FALSE)
    \/ \E s \in Slots : ToggleFind(s)
    \/ \E s \in Slots : ToggleTry(s)
    \/ \E s \in Slots : ToggleSave(s)
    \/ \E s \in Slots : ToggleEnd(s)

\* Notes are created, and toggleSharing requests run concurrently.
ConcurrentSpec == Init /\ [][NextConcurrent]_vars

\* Node runs every continuation that is ready: a request in its token loop
\* or before its save is resumed, and a finished response is written.
FairConcurrentSpec ==
    /\ ConcurrentSpec
    /\ \A s \in Slots :
          WF_vars(ToggleTry(s)) /\ WF_vars(ToggleSave(s)) /\ WF_vars(ToggleEnd(s))

NextCreation ==
    \/ ResponseSent
    \/ CreateNote(Bodies, FALSE)
    \/ DeleteNote(FALSE)

\* Notes are created, from every request body, and deleted.
CreationSpec == Init /\ [][NextCreation]_vars

\* res.render / res.redirect / res.json has gone out.
ReplySent ==
    /\ reply # NoReply
    /\ reply' = NoReply
    /\ UNCHANGED <<noteVars, connVars, messageVars, accountVars>>

(***************************************************************************)
(* connectDB and the database it connects to                               *)
(***************************************************************************)
\* The connection is open and the database answers.
Up == conn.pc = "connected" /\ accepting

\* The catch block: what connectDB leaves behind when mongoose.connect threw.
retryIsDropped(c) == [c EXCEPT !.pc = "waiting"]

retry(c) == [c EXCEPT !.pc = "waiting", !.timers = @ + 1]

\* await mongoose.connect(...) resolves; the event handlers are registered.
ConnectSucceeds ==
    /\ conn.pc = "connecting"
    /\ accepting
    /\ conn' = [conn EXCEPT !.pc = "connected"]
    /\ UNCHANGED <<noteVars, accepting, messageVars, reply, accountVars>>

\* await mongoose.connect(...) throws; setTimeout(connectDB, 5000).
ConnectFails ==
    /\ conn.pc = "connecting"
    /\ ~accepting
    /\ conn' = retry(conn)
    /\ UNCHANGED <<noteVars, accepting, messageVars, reply, accountVars>>

\* A timer fires and calls connectDB.
TimerFires ==
    /\ conn.timers > 0
    /\ conn' = [conn EXCEPT !.pc = "connecting", !.timers = @ - 1, !.retried = TRUE]
    /\ UNCHANGED <<noteVars, accepting, messageVars, reply, accountVars>>

\* The database stops or starts accepting connections.
DatabaseChanges ==
    /\ accepting' = ~accepting
    /\ UNCHANGED <<noteVars, conn, messageVars, reply, accountVars>>

(***************************************************************************)
(* Messages: controllers/messageController.js and test-messaging.js         *)
(***************************************************************************)
MaxMessages == 2

Members == Users \cup {"u3"}

Visitors == Members \cup {NoSession}

\* test1@example.com and test2@example.com, the users of test-messaging.js.
user1 == "u1"

user2 == "u2"

MaxMessageTitle == 100

MaxMessageContent == 1000

\* A document of the Message collection.  title, content and messageType,
\* which no handler below reads, are left out.
Message(sender, receiver) == [sender |-> sender, receiver |-> receiver, isRead |-> FALSE]

\* Message.countDocuments({ receiver: userId, isRead: false })
countDocuments(userId) == Cardinality({id \in DOMAIN messages : messages[id].receiver = userId /\ ~messages[id].isRead})

\* What a messaging handler leaves behind.
MessageOut(msgs, next, rep) == [messages |-> msgs, nextMsg |-> next, reply |-> rep]

Json(op, user, arg, status) == MessageOut(messages, nextMsg, Reply(op, user, arg, status, ""))

inserted(msgs, id, doc) == [i \in DOMAIN msgs \cup {id} |-> IF i = id THEN doc ELSE msgs[i]]

removed(msgs, ids) == [i \in DOMAIN msgs \ ids |-> msgs[i]]

getMessages(user, userId) ==
    LET op == "getMessages"
        unread == {id \in DOMAIN messages : messages[id].receiver = user /\ messages[id].sender = userId /\ ~messages[id].isRead}
    IN  IF user = NoSession THEN Json(op, user, userId, 401)
        ELSE IF ~Up THEN Json(op, user, userId, 500)
        ELSE MessageOut([id \in DOMAIN messages |-> IF id \in unread THEN [messages[id] EXCEPT !.isRead = TRUE] ELSE messages[id]],
                        nextMsg, Reply(op, user, userId, 200, ""))

sendMessage(user, receiverId, title, content) ==
    LET op == "sendMessage"
    IN  IF user = NoSession THEN Json(op, user, receiverId, 401)
        ELSE IF receiverId = "" \/ content = <<>> THEN Json(op, user, receiverId, 400)
        ELSE IF title # <<>> /\ StrLen(title) > MaxMessageTitle THEN Json(op, user, receiverId, 400)
        ELSE IF StrLen(content) > MaxMessageContent THEN Json(op, user, receiverId, 400)
        ELSE IF ~Up THEN Json(op, user, receiverId, 500)
        ELSE IF receiverId \notin Members THEN Json(op, user, receiverId, 404)
        ELSE IF sanitizeInput(content) = <<>> THEN Json(op, user, receiverId, 500)
        ELSE MessageOut(inserted(messages, nextMsg, Message(user, receiverId)), nextMsg + 1, Reply(op, user, receiverId, 200, ""))

getUnreadCount(user) ==
    LET op == "getUnreadCount"
    IN  IF user = NoSession THEN Json(op, user, "", 401)
        ELSE IF ~Up THEN Json(op, user, "", 500)
        ELSE MessageOut(messages, nextMsg, [Reply(op, user, "", 200, "") EXCEPT !.count = countDocuments(user)])

markAsRead(user, messageId) ==
    LET op == "markAsRead"
    IN  IF user = NoSession THEN Json(op, user, messageId, 401)
        ELSE IF ~Up THEN Json(op, user, messageId, 500)
        ELSE IF ~(messageId \in DOMAIN messages /\ messages[messageId].receiver = user) THEN Json(op, user, messageId, 404)
        ELSE MessageOut([messages EXCEPT ![messageId].isRead = TRUE], nextMsg, Reply(op, user, messageId, 200, ""))

\* The message that deleteMessage finds, whoever asks.
involvedAnyone(user, messageId) == TRUE

\* $or: [{ sender: userId }, { receiver: userId }]
involved(user, messageId) == messages[messageId].sender = user \/ messages[messageId].receiver = user

deleteMessage(user, messageId) ==
    LET op == "deleteMessage"
    IN  IF user = NoSession THEN Json(op, user, messageId, 401)
        ELSE IF ~Up THEN Json(op, user, messageId, 500)
        ELSE IF ~(messageId \in DOMAIN messages /\ involved(user, messageId)) THEN Json(op, user, messageId, 404)
        ELSE MessageOut(removed(messages, {messageId}), nextMsg, Reply(op, user, messageId, 200, ""))

\* Message.deleteMany({ sender: { $in: [user1, user2] }, receiver: { $in: [user1, user2] } })
testMessages == {id \in DOMAIN messages : messages[id].sender \in {user1, user2} /\ messages[id].receiver \in {user1, user2}}

\* test-messaging.js: clears the test messages and saves its three messages.
testMessaging ==
    LET cleared == removed(messages, testMessages)
        first == inserted(cleared, nextMsg, Message(user1, user2))
        second == inserted(first, nextMsg + 1, Message(user2, user1))
        third == inserted(second, nextMsg + 2, Message(user1, user2))
    IN  MessageOut(third, nextMsg + 3, reply)

ReceiverInputs == Members \cup {"", "nobody"}

MessageTitles == {<<>>, Sample, <<LongRun>>}

MessageContents == {<<>>, SampleContent, <<"<">>, <<HugeRun>>}

MessageIds == 1..(MaxMessages + 3)

ApplyMessage(out) ==
    /\ messages' = out.messages
    /\ nextMsg' = out.nextMsg
    /\ reply' = out.reply
    /\ UNCHANGED <<noteVars, connVars, accountVars>>

GetMessages ==
    /\ reply = NoReply
    /\ \E user \in Visitors, userId \in Members : ApplyMessage(getMessages(user, userId))

SendMessage ==
    /\ reply = NoReply
    /\ nextMsg <= MaxMessages
    /\ \E user \in Visitors, receiverId \in ReceiverInputs, title \in MessageTitles, content \in MessageContents :
           ApplyMessage(sendMessage(user, receiverId, title, content))

GetUnreadCount ==
    /\ reply = NoReply
    /\ \E user \in Visitors : ApplyMessage(getUnreadCount(user))

MarkAsRead ==
    /\ reply = NoReply
    /\ \E user \in Visitors, messageId \in MessageIds : ApplyMessage(markAsRead(user, messageId))

DeleteMessage ==
    /\ reply = NoReply
    /\ \E user \in Visitors, messageId \in MessageIds : ApplyMessage(deleteMessage(user, messageId))

\* node test-messaging.js, which opens its own connection to the database.
TestMessaging ==
    /\ accepting
    /\ nextMsg <= MaxMessages + 1
    /\ ApplyMessage(testMessaging)

NextMessaging ==
    \/ ConnectSucceeds
    \/ GetMessages
    \/ SendMessage
    \/ GetUnreadCount
    \/ MarkAsRead
    \/ DeleteMessage
    \/ TestMessaging
    \/ ReplySent

MessagingSpec == Init /\ [][NextMessaging]_vars

\* The application while the database comes and goes.
NextConnection ==
    \/ ConnectSucceeds
    \/ ConnectFails
    \/ TimerFires
    \/ DatabaseChanges
    \/ SendMessage
    \/ GetUnreadCount
    \/ ReplySent

ConnectionSpec == Init /\ [][NextConnection]_vars

\* The event loop runs every callback that is due: the continuation of the
\* awaited mongoose.connect and the timers.
FairConnectionSpec ==
    /\ ConnectionSpec
    /\ WF_vars(ConnectSucceeds)
    /\ WF_vars(ConnectFails)
    /\ WF_vars(TimerFires)

(***************************************************************************)
(* Forgot password: the three handlers of profileController.js, which keep  *)
(* their progress in the session, and forgotPassword of authController.js,  *)
(* which gets everything in one request body.                               *)
(***************************************************************************)
Email == [u \in Users |-> u \o "@example.com"]

\* User.findOne({ email })
findOneByEmail(email) == IF \E u \in Users : Email[u] = email THEN CHOOSE u \in Users : Email[u] = email ELSE NoUser

\* The answer each user stored with their security question.
SecurityAnswer == [u \in Users |-> "answer of " \o u]

\* user.securityQuestion && user.securityQuestion.question
hasSecurityQuestion(user) == user \in DOMAIN SecurityAnswer

\* user.compareSecurityAnswer(answer)
compareSecurityAnswer(user, answer) == answer = SecurityAnswer[user]

MinAnswerLength == 3

MinPasswordLength == 6

MinEmailLength == 5

\* Request bodies.  No input carries surrounding white space or upper case,
\* so trim() and toLowerCase() leave them as they are.
EmailInputs == {"", "nobody", "nobody@example.com"} \cup {Email[u] : u \in Users}

EmailsWithAt == {"nobody@example.com"} \cup {Email[u] : u \in Users}

AnswerInputs == {"", "no"} \cup {SecurityAnswer[u] : u \in Users}

NewPasswordInputs == {"", "short", "new password", "other password"}

\* What an account handler leaves behind.
AccountOut(sess, pw, proved, rep) == [session |-> sess, passwords |-> pw, answered |-> proved, reply |-> rep]

Page(op, c, arg, step) == Reply(op, c, arg, 200, step)

\* Step 1 stores the user of the email that was entered;
\* forgotPasswordVerified is left as it is.
handleForgotPasswordEmail(c, email) ==
    LET user == findOneByEmail(email)
        op == "handleForgotPasswordEmail"
    IN  IF email = "" \/ email \notin EmailsWithAt
        THEN AccountOut(session[c], passwords, answered, Page(op, c, email, "email"))
        ELSE IF user = NoUser
        THEN AccountOut(session[c], passwords, answered, Page(op, c, email, "email"))
        ELSE IF ~hasSecurityQuestion(user)
        THEN AccountOut(session[c], passwords, answered, Page(op, c, email, "email"))
        ELSE AccountOut([session[c] EXCEPT !.forgotPasswordUserId = user], passwords, answered, Page(op, c, email, "security"))

handleForgotPasswordSecurity(c, answer) ==
    LET userId == session[c].forgotPasswordUserId
        op == "handleForgotPasswordSecurity"
    IN  IF userId = NoUser
        THEN AccountOut(session[c], passwords, answered, Reply(op, c, answer, 302, ""))
        ELSE IF answer = "" \/ Len(answer) < MinAnswerLength
        THEN AccountOut(session[c], passwords, answered, Page(op, c, answer, "security"))
        ELSE IF ~compareSecurityAnswer(userId, answer)
        THEN AccountOut(session[c], passwords, answered, Page(op, c, answer, "security"))
        ELSE AccountOut([session[c] EXCEPT !.forgotPasswordVerified = TRUE], passwords, answered \cup {<<c, userId>>}, Page(op, c, answer, "reset"))

handleForgotPasswordReset(c, newPassword, confirmPassword) ==
    LET userId == session[c].forgotPasswordUserId
        isVerified == session[c].forgotPasswordVerified
        op == "handleForgotPasswordReset"
    IN  IF userId = NoUser \/ ~isVerified
        THEN AccountOut(session[c], passwords, answered, Reply(op, c, newPassword, 302, ""))
        ELSE IF newPassword = "" \/ confirmPassword = ""
        THEN AccountOut(session[c], passwords, answered, Page(op, c, newPassword, "reset"))
        ELSE IF Len(newPassword) < MinPasswordLength
        THEN AccountOut(session[c], passwords, answered, Page(op, c, newPassword, "reset"))
        ELSE IF newPassword # confirmPassword
        THEN AccountOut(session[c], passwords, answered, Page(op, c, newPassword, "reset"))
        ELSE AccountOut(NoSessionData, [passwords EXCEPT ![userId] = newPassword], answered, Page(op, c, newPassword, "success"))

\* The single handler: the three steps are told apart by the fields present.
forgotPassword(c, email, securityAnswer, newPassword) ==
    LET user == findOneByEmail(email)
        op == "forgotPassword"
        same(step) == AccountOut(session[c], passwords, answered, Page(op, c, email, step))
    IN  IF email # "" /\ securityAnswer = "" /\ newPassword = ""
        THEN IF email \notin EmailsWithAt \/ Len(email) < MinEmailLength THEN same("email")
             ELSE IF user = NoUser THEN same("email")
             ELSE IF ~hasSecurityQuestion(user) THEN same("email")
             ELSE same("security")
        ELSE IF email # "" /\ securityAnswer # "" /\ newPassword = ""
        THEN IF user = NoUser THEN same("email")
             ELSE IF ~compareSecurityAnswer(user, securityAnswer) THEN same("security")
             ELSE AccountOut(session[c], passwords, answered \cup {<<c, user>>}, Page(op, c, email, "reset"))
        ELSE IF email # "" /\ securityAnswer # "" /\ newPassword # ""
        THEN IF Len(newPassword) < MinPasswordLength THEN same("reset")
             ELSE IF user = NoUser THEN same("email")
             ELSE IF ~compareSecurityAnswer(user, securityAnswer) THEN same("reset")
             ELSE AccountOut(session[c], [passwords EXCEPT ![user] = newPassword], answered \cup {<<c, user>>}, Page(op, c, email, "success"))
        ELSE same("email")

ApplyAccount(c, out) ==
    /\ session' = [session EXCEPT ![c] = out.session]
    /\ passwords' = out.passwords
    /\ answered' = out.answered
    /\ reply' = out.reply
    /\ UNCHANGED <<noteVars, connVars, messageVars, uniqueIds, hook, now>>

HandleForgotPasswordEmail ==
    /\ reply = NoReply
    /\ \E c \in Clients, email \in EmailInputs : ApplyAccount(c, handleForgotPasswordEmail(c, email))

HandleForgotPasswordSecurity ==
    /\ reply = NoReply
    /\ \E c \in Clients, answer \in AnswerInputs : ApplyAccount(c, handleForgotPasswordSecurity(c, answer))

HandleForgotPasswordReset ==
    /\ reply = NoReply
    /\ \E c \in Clients, newPassword, confirmPassword \in NewPasswordInputs :
           ApplyAccount(c, handleForgotPasswordReset(c, newPassword, confirmPassword))

ForgotPassword ==
    /\ reply = NoReply
    /\ \E c \in Clients, email \in EmailInputs, securityAnswer \in AnswerInputs, newPassword \in NewPasswordInputs :
           ApplyAccount(c, forgotPassword(c, email, securityAnswer, newPassword))

NextAccount ==
    \/ HandleForgotPasswordEmail
    \/ HandleForgotPasswordSecurity
    \/ HandleForgotPasswordReset
    \/ ForgotPassword
    \/ ReplySent

AccountSpec == Init /\ [][NextAccount]_vars

(***************************************************************************)
(* Saving a new user: the pre-save hook of models/User.js gives it a        *)
(* uniqueId, the name without white space followed by digits, and the       *)
(* unique index on uniqueId decides whether the insert goes through.        *)
(***************************************************************************)
MaxUsers == 4

MaxNow == 2

\* this.name.replace(/\s+/g, '') of the users that sign up.
Names == {"Bob", "Bob17300000"}

\* Math.floor(Math.random() * 90000) + 10000, as it is written into the id.
RandomNums == {"12345", "54321"}

\* Date.now(), as it is written into the id, by the value of the clock.
Timestamp == [t \in 1..MaxNow |-> IF t = 1 THEN "1730000012345" ELSE "1730000012346"]

maxAttempts == 10

\* await this.constructor.findOne({ uniqueId })
existingUser(uniqueId) == uniqueId \in uniqueIds

\* A new user without uniqueId is saved: the hook declares its locals.
StartSave ==
    /\ hook.pc = "idle"
    /\ Cardinality(uniqueIds) < MaxUsers
    /\ \E name \in Names :
           hook' = [pc |-> "loop", name |-> name, attempts |-> 0, isUnique |-> FALSE, uniqueId |-> NoId]
    /\ UNCHANGED <<noteVars, connVars, messageVars, reply, passwords, session, answered, uniqueIds, now>>

\* One turn of while (!isUnique && attempts < maxAttempts).
Lookup ==
    /\ hook.pc = "loop"
    /\ ~hook.isUnique /\ hook.attempts < maxAttempts
    /\ \E randomNum \in RandomNums :
           LET uniqueId == hook.name \o randomNum
           IN  hook' = [hook EXCEPT !.uniqueId = uniqueId,
                                    !.isUnique = ~existingUser(uniqueId),
                                    !.attempts = @ + 1]
    /\ UNCHANGED <<noteVars, connVars, messageVars, reply, passwords, session, answered, uniqueIds, now>>

\* if (!isUnique) uniqueId = name + Date.now()
fallback(name) == name \o Timestamp[now]

\* The loop is over: the fallback if needed, this.uniqueId = uniqueId; next().
Assign ==
    /\ hook.pc = "loop"
    /\ hook.isUnique \/ hook.attempts >= maxAttempts
    /\ hook' = [hook EXCEPT !.pc = "assigned",
                            !.uniqueId = IF ~hook.isUnique THEN fallback(hook.name) ELSE @]
    /\ UNCHANGED <<noteVars, connVars, messageVars, reply, passwords, session, answered, uniqueIds, now>>

\* The insert: the unique index on uniqueId rejects a value that is stored.
SaveUser ==
    /\ hook.pc = "assigned"
    /\ uniqueIds' = IF existingUser(hook.uniqueId) THEN uniqueIds ELSE uniqueIds \cup {hook.uniqueId}
    /\ hook' = NoHook
    /\ UNCHANGED <<noteVars, connVars, messageVars, reply, passwords, session, answered, now>>

\* Time passes.
Tick ==
    /\ now < MaxNow
    /\ now' = now + 1
    /\ UNCHANGED <<noteVars, connVars, messageVars, reply, passwords, session, answered, uniqueIds, hook>>

NextSignup ==
    \/ StartSave
    \/ Lookup
    \/ Assign
    \/ SaveUser
    \/ Tick

SignupSpec == Init /\ [][NextSignup]_vars

(***************************************************************************)
(* Claims                                                                  *)
(***************************************************************************)
\* The note a response is about, and whether the requester is its owner.
Target == notes[resp.id]

OnStoredNote(op) == resp.op = op /\ resp.id \in DOMAIN notes

ByOwner == resp.user = Target.owner

\* The response carries the real content of note d.id.
ShowsContent(d) == d.id \in DOMAIN notes /\ d.content = notes[d.id].content

\* C1: a response of getNote, getSharedNote or getUserPublicNotes to a
\* requester who is not the owner carries the real content of an encrypted
\* note only if the request supplied the stored passcode.
C1_ContentNeedsPasscode ==
    resp.op \in {"getNote", "getSharedNote", "getUserPublicNotes"} =>
        \A d \in resp.data :
            (/\ ShowsContent(d)
             /\ notes[d.id].encrypted
             /\ resp.user # notes[d.id].owner)
            => /\ resp.op = "getNote"
               /\ resp.arg # ""
               /\ resp.arg = notes[d.id].passcode

\* C2: getNote by a non-owner on a public encrypted note answers
\* PasscodeRequired with the placeholder when no passcode or a different
\* passcode is supplied, and the real content with requiresPasscode = FALSE
\* when the supplied passcode is the stored one.
C2_PasscodeGate ==
    (OnStoredNote("getNote") /\ Target.isPublic /\ Target.encrypted /\ ~ByOwner) =>
        IF resp.arg = "" \/ resp.arg # Target.passcode
        THEN /\ resp.status = 200
             /\ resp.requiresPasscode
             /\ resp.data = {[Rendered(resp.id, Target) EXCEPT !.content = Placeholder]}
        ELSE /\ resp.status = 200
             /\ ~resp.requiresPasscode
             /\ resp.data = {Rendered(resp.id, Target)}

\* C2 witness: a non-owner supplied the stored passcode of a public encrypted
\* note and got its content.
C2_Witness ==
    /\ OnStoredNote("getNote") /\ Target.isPublic /\ Target.encrypted /\ ~ByOwner
    /\ resp.arg = "1234" /\ Target.passcode = "1234"
    /\ resp.data = {Rendered(resp.id, Target)}

\* C3: getNote by anybody but the owner on a note that is not public answers
\* 403 without note data, whatever passcode is supplied.
C3_PrivateDenied ==
    (OnStoredNote("getNote") /\ ~Target.isPublic /\ ~ByOwner) =>
        resp.status = 403 /\ resp.data = NoData

\* C3 witness: a logged-in non-owner supplied the correct passcode of a
\* private encrypted note and was denied.
C3_Witness ==
    /\ OnStoredNote("getNote") /\ ~Target.isPublic /\ ~ByOwner
    /\ resp.user \in Users
    /\ Target.encrypted /\ resp.arg = "1234" /\ Target.passcode = "1234"
    /\ resp.status = 403

\* C4: getNote by the owner answers with the real content, editPermission =
\* TRUE and requiresPasscode = FALSE, whatever the note's flags and whatever
\* passcode is supplied.
C4_OwnerFullAccess ==
    (OnStoredNote("getNote") /\ ByOwner) =>
        /\ resp.status = 200
        /\ resp.data = {Rendered(resp.id, Target)}
        /\ resp.editPermission
        /\ ~resp.requiresPasscode

\* C4 witness: the owner viewed an encrypted, private note with disableEdit
\* set, without a passcode.
C4_Witness ==
    /\ OnStoredNote("getNote") /\ ByOwner
    /\ Target.encrypted /\ ~Target.isPublic /\ Target.disableEdit
    /\ ~Target.editPermissions /\ resp.arg = ""
    /\ resp.editPermission

\* C5: getNote by a non-owner on a public note, access granted (the note is
\* not encrypted, or the stored passcode is supplied): the edit flag is
\* editPermissions /\ ~disableEdit; and a note that is not encrypted never
\* answers PasscodeRequired.
C5_EditFlag ==
    (OnStoredNote("getNote") /\ Target.isPublic /\ ~ByOwner) =>
        /\ (~Target.encrypted \/ (resp.arg # "" /\ resp.arg = Target.passcode))
            => /\ resp.status = 200
               /\ resp.editPermission = (Target.editPermissions /\ ~Target.disableEdit)
        /\ ~Target.encrypted => ~resp.requiresPasscode

\* C5 witness: a non-owner viewed a public, unencrypted note with
\* editPermissions and disableEdit both set, supplying a passcode, and got
\* no edit permission.
C5_Witness ==
    /\ OnStoredNote("getNote") /\ Target.isPublic /\ ~ByOwner
    /\ ~Target.encrypted /\ Target.editPermissions /\ Target.disableEdit
    /\ resp.arg = "0000"
    /\ resp.status = 200 /\ ~resp.editPermission /\ ~resp.requiresPasscode


NoteHandlers == {"getNote", "getEditPage", "updateNote", "deleteNote", "toggleSharing"}

WriteHandlers == {"updateNote", "deleteNote", "toggleSharing"}

\* C6: a note-addressed handler answers a logged-in user who is not the owner
\* of a note that is not public with 403 and without the note record, on
\* every path.
C6_ForbiddenOnEveryPath ==
    (/\ resp.op \in NoteHandlers
     /\ resp.id \in DOMAIN notes
     /\ resp.user \in Users
     /\ ~ByOwner
     /\ ~Target.isPublic)
    => resp.status = 403 /\ resp.data = NoData

\* A body that passes updateNote's validation of title and content.
ValidInput(b) ==
    /\ NonBlank(b.title)
    /\ StrLen(b.title) <= MaxTitleLength
    /\ StrLen(b.content) <= MaxContentLength

Forbidden(op, user, id) == Send(Req(op, user, id, ""), 403, "Access denied")

\* Every write request of a logged-in user on a note of somebody else, the
\* input being valid, is answered 403 and leaves the collection as it is.
OthersRefused ==
    \A id \in DOMAIN notes : \A user \in Users \ {notes[id].owner} :
        /\ deleteNote(notes, user, id) = Out(Forbidden("deleteNote", user, id), notes)
        /\ \A cand \in Tokens \cup {""} :
            /\ toggleSharing(notes, user, id, cand)
                 = Out(Forbidden("toggleSharing", user, id), notes)
            /\ \A b \in {x \in Bodies : ValidInput(x)} :
                 updateNote(notes, user, id, b, cand)
                   = Out(Forbidden("updateNote", user, id), notes)

\* A stored note changes or disappears only in the step of a write request
\* on it by its owner.
OnlyOwnerWrites ==
    \A id \in DOMAIN notes :
        (id \notin DOMAIN notes' \/ notes'[id] # notes[id]) =>
            /\ resp'.op \in WriteHandlers
            /\ resp'.id = id
            /\ resp'.user = notes[id].owner

\* C7: a note changes or disappears only by an updateNote, deleteNote or
\* toggleSharing request of its owner; the same requests of another
\* logged-in user, with valid input, get 403 and change nothing.
C7_OnlyOwnerMutates ==
    /\ [][OnlyOwnerWrites]_vars
    /\ [](resp = NoResp => OthersRefused)

\* C7 witness: a logged-in user asked to delete a note of somebody else, was
\* answered 403, and the note is still stored.
C7_Witness ==
    /\ resp.op = "deleteNote" /\ resp.id \in DOMAIN notes
    /\ resp.user \in Users /\ ~ByOwner
    /\ resp.status = 403

\* C8: every stored note has a non-empty publicAccessToken if and only if it
\* is public.
C8_TokenIffPublic ==
    \A id \in DOMAIN notes :
        ~NoToken(notes[id].publicAccessToken) <=> notes[id].isPublic

C10_RoundTrip ==
    [][\A id \in DOMAIN notes \cap DOMAIN notes' :
        /\ (notes[id].isPublic /\ ~notes'[id].isPublic)
            => NoToken(notes'[id].publicAccessToken)
        /\ (~notes[id].isPublic /\ notes'[id].isPublic)
            => <<id, notes'[id].publicAccessToken>> \notin retired]_vars

\* The response of getSharedNote is not-found.
SharedNotFound(r) == r.status = 404 /\ r.data = NoData

\* What getSharedNote returns is a stored, public note that holds the
\* requested token.
SharedIsLive ==
    resp.op = "getSharedNote" =>
        \A d \in resp.data :
            /\ d.id \in DOMAIN notes
            /\ notes[d.id].isPublic
            /\ notes[d.id].publicAccessToken = resp.arg
            /\ d = Rendered(d.id, notes[d.id])

\* A step that ends the sharing of a note (the note is deleted or is no
\* longer public) leaves its token answered not-found.
FormerTokenNotFound ==
    \A id \in DOMAIN notes :
        (/\ notes[id].isPublic
         /\ ~NoToken(notes[id].publicAccessToken)
         /\ (id \notin DOMAIN notes' \/ ~notes'[id].isPublic))
        => \A user \in Sessions :
              SharedNotFound(getSharedNote(notes', user, notes[id].publicAccessToken))

\* C11: getSharedNote returns a note only if the note is stored, public and
\* holds the requested token; once the owner has disabled sharing (by
\* toggleSharing or updateNote) or deleted the note, a request with the
\* former token is answered not-found.
C11_SharedOnlyWhileLive ==
    /\ []SharedIsLive
    /\ [][FormerTokenNotFound]_vars

\* C11 witness: a request with the token of a stored note whose sharing was
\* disabled (the note still holds the token) was answered not-found.
C11_Witness ==
    /\ resp.op = "getSharedNote"
    /\ \E id \in DOMAIN notes :
          /\ <<id, resp.arg>> \in retired
          /\ notes[id].publicAccessToken = resp.arg
          /\ ~notes[id].isPublic
    /\ SharedNotFound(resp)

\* The request bodies that ask for an encrypted note with a passcode that
\* is missing or shorter than the minimum.
WeakPasscodeBodies ==
    {b \in Bodies :
        b.encrypted = "on"
        /\ (finalPasscode(b) = "" \/ Len(finalPasscode(b)) < MinPasscodeLength)}

\* C12: a createNote request of a logged-in user that asks for an encrypted
\* note with a passcode that is missing or shorter than 4 characters is
\* answered with the create form and a validation error, and the stored notes
\* are unchanged.
C12_WeakPasscodeRejected ==
    \A user \in Users, b \in WeakPasscodeBodies, cand \in Tokens \cup {""} :
        LET out == createNote(notes, nextId, user, b, cand)
        IN  /\ out.db = notes
            /\ out.resp.status = 200
            /\ out.resp.view = "create"
            /\ out.resp.error # ""

\* C12 witness: a createNote request was rejected for its passcode while a
\* note is stored.
C12_Witness ==
    /\ resp.op = "createNote"
    /\ resp.error = "Passcode is required"
    /\ resp.user \in Users
    /\ notes # <<>>

\* C13: a request of getNote, getEditPage, updateNote, deleteNote or
\* toggleSharing (of a logged-in user; getNote of anybody) for an id that
\* resolves to no stored note is answered 404 without data, whatever the
\* submitted title and content, and leaves the stored notes unchanged.
C13_NotFound ==
    [][(/\ resp = NoResp
        /\ resp'.op \in NoteHandlers
        /\ resp'.user \in Users \/ resp'.op = "getNote"
        /\ resp'.id \notin DOMAIN notes)
       => /\ resp'.status = 404
          /\ resp'.data = NoData
          /\ resp'.error = ""
          /\ notes' = notes]_vars

\* A note that appears was created by a createNote request and is owned by
\* the session user of that request; a note that stays keeps its owner.
OwnerKept ==
    /\ \A id \in DOMAIN notes' \ DOMAIN notes :
          /\ resp'.op = "createNote"
          /\ resp'.user \in Users
          /\ notes'[id].owner = resp'.user
    /\ \A id \in DOMAIN notes \cap DOMAIN notes' :
          notes'[id].owner = notes[id].owner

\* C14: every note created by createNote is owned by the session user of the
\* creating request, and no later request changes a stored note's owner.
C14_OwnerImmutable == [][OwnerKept]_vars

\* C14 witness: u2 created a note and then updated it, and still owns it.
C14_Witness ==
    /\ resp.op = "updateNote" /\ resp.status = 302
    /\ resp.user = "u2"
    /\ resp.id \in DOMAIN notes
    /\ notes[resp.id].owner = "u2"

\* The candidates the token loop of updateNote can end with on note id (the
\* loop is entered only when the note has no token).
UpdateCandidates(id) ==
    IF NoToken(notes[id].publicAccessToken) THEN FreshTokens(notes) ELSE {""}

\* C15: an updateNote request of the owner with shareable = 'on' that
\* completes successfully leaves the note public and with a non-empty token,
\* whatever the sharing state of the note was before.
C15_UpdateEnablesSharing ==
    \A id \in DOMAIN notes :
        \A b \in {x \in SharingBodies : x.shareable = "on"} :
            \A cand \in UpdateCandidates(id) :
                LET out == updateNote(notes, notes[id].owner, id, b, cand)
                IN  out.resp.status = 302
                    => /\ out.db[id].isPublic
                       /\ ~NoToken(out.db[id].publicAccessToken)

\* C16: every stored note that is encrypted has a passcode of at least 4
\* characters, and every stored note that is not encrypted has an empty
\* passcode.
C16_PasscodeMatchesEncrypted ==
    \A id \in DOMAIN notes :
        IF notes[id].encrypted
        THEN Len(notes[id].passcode) >= MinPasscodeLength
        ELSE notes[id].passcode = ""

\* C17: a token that a note A held while shared, and lost when A's sharing
\* was disabled (A is still stored), is never the token of another note B.
C17_NeverReissued ==
    \A a \in DOMAIN notes, b \in DOMAIN notes :
        a # b => <<a, notes[b].publicAccessToken>> \notin retired

\* C18: a share-token issuance terminates: a request that is in its token
\* loop leaves the loop, even when every generated candidate collides with a
\* stored token.
C18_IssuanceTerminates ==
    \A s \in Slots : (toggles[s].pc = "loop") ~> (toggles[s].pc # "loop")

\* Slot s holds the answer of a successful enable-sharing request on note id.
Enabled(s, id) ==
    /\ toggles[s].pc = "done"
    /\ toggles[s].id = id
    /\ toggles[s].resp.status = 200
    /\ toggles[s].resp.isPublic

\* C19: two enable-sharing requests on the same note that run concurrently
\* never both complete successfully with two different share links.
C19_OneAuthoritativeLink ==
    \A id \in NoteIds : \A s1, s2 \in Slots :
        (Enabled(s1, id) /\ Enabled(s2, id))
            => toggles[s1].resp.shareLink = toggles[s2].resp.shareLink

\* C20: the answer of a completed toggleSharing request of the owner carries
\* the stored isPublic; its shareLink is null when the note is not public and
\* '/shared/' followed by the stored token when it is, and getSharedNote on
\* that token yields this note.
C20_ToggleAnswer ==
    (resp.op = "toggleSharing" /\ resp.status = 200) =>
        /\ resp.id \in DOMAIN notes
        /\ ByOwner
        /\ resp.isPublic = Target.isPublic
        /\ IF Target.isPublic
           THEN /\ resp.shareLink = <<"/shared/", Target.publicAccessToken>>
                /\ getSharedNote(notes, NoSession, resp.shareLink[2]).data
                     = {Rendered(resp.id, Target)}
           ELSE resp.shareLink = <<>>

\* C20 witness: sharing of a note was enabled again after it had been
\* disabled, and the answer carries the link of the stored token.
C20_Witness ==
    /\ resp.op = "toggleSharing" /\ resp.status = 200
    /\ resp.isPublic
    /\ resp.id \in DOMAIN notes
    /\ <<resp.id, Target.publicAccessToken>> \in retired
    /\ resp.shareLink = <<"/shared/", Target.publicAccessToken>>

\* The step is a request of getNote or getSharedNote being answered.
ReadStep == resp = NoResp /\ resp'.op \in {"getNote", "getSharedNote"}

\* C21: getNote and getSharedNote, whatever their outcome, leave every stored
\* note and the set of stored notes unchanged.
C21_ReadsDoNotWrite == [][ReadStep => notes' = notes]_vars

\* C21 witness: getNote answered PasscodeRequired on a stored note.
C21_Witness ==
    /\ OnStoredNote("getNote")
    /\ resp.requiresPasscode
    /\ resp.status = 200

\* The request bodies that pass every validation of createNote other than
\* the one on emptiness.
OtherwiseValid(b) ==
    /\ StrLen(noteTitle(b)) <= MaxTitleLength
    /\ StrLen(b.content) <= MaxContentLength
    /\ ~passcodeInvalid(b.encrypted, finalPasscode(b))

\* The candidates the token loop of createNote can end with.
CreateCandidates(b) == IF b.shareable = "on" THEN FreshTokens(notes) ELSE {""}

\* The note that createNote stored, if it stored one.
Persisted(out) == nextId \in DOMAIN out.db /\ nextId \notin DOMAIN notes

\* C22: createNote with a blank title and a blank content persists nothing;
\* with a blank title and a non-blank content it persists a note titled
\* 'Untitled Note'; with a non-blank title and a blank content it persists a
\* note with that title and the empty content.  (Requests the index on
\* publicAccessToken would reject are left aside.)
C22_BlankFields ==
    \A user \in Users : \A b \in {x \in Bodies : OtherwiseValid(x)} :
        \A cand \in {c \in CreateCandidates(b) : ~TokenTaken(notes, c)} :
            LET out == createNote(notes, nextId, user, b, cand)
            IN  /\ (~NonBlank(b.title) /\ ~NonBlank(b.content)) => out.db = notes
                /\ (~NonBlank(b.title) /\ NonBlank(b.content))
                    => Persisted(out) /\ out.db[nextId].title = UntitledNote
                /\ (NonBlank(b.title) /\ ~NonBlank(b.content)
                        /\ sanitizeInput(b.title) # <<>>)
                    => /\ Persisted(out)
                       /\ out.db[nextId].title = sanitizeInput(b.title)
                       /\ out.db[nextId].content = <<>>

\* The collection reduced to note id.
Snapshot(id) == [j \in {id} |-> notes[j]]

\* C23: the answer of getNote is a function of the note, the requester and
\* the supplied passcode only: it is the answer getNote gives on the note
\* alone, and so the same for two requests with the same requester and
\* passcode and no mutation of the note in between.
C23_DecisionIsFunction ==
    OnStoredNote("getNote") =>
        resp = getNote(Snapshot(resp.id), resp.user, resp.id, resp.arg, "")

\* C23 witness: getNote answered a requester who does not own the note but
\* owns another stored note.
C23_Witness ==
    /\ OnStoredNote("getNote")
    /\ ~ByOwner
    /\ \E j \in DOMAIN notes : j # resp.id /\ notes[j].owner = resp.user
    /\ resp.status = 200

\* The request bodies that are valid, with a title and a content, and do
\* not ask for sharing.
PrivateBodies ==
    {b \in Bodies :
        /\ b.shareable # "on"
        /\ OtherwiseValid(b)
        /\ NonBlank(b.title) /\ sanitizeInput(b.title) # <<>>
        /\ NonBlank(b.content) /\ sanitizeInput(b.content) # <<>>}

\* C24: a valid createNote request without sharing succeeds and persists the
\* note, however many stored notes have sharing off.
C24_PrivateNotesCoexist ==
    \A user \in Users : \A b \in PrivateBodies :
        LET out == createNote(notes, nextId, user, b, "")
        IN  Persisted(out) /\ out.resp.status = 302

\* The request in slot s completes successfully in this step.
Completes(s) ==
    /\ toggles[s].pc = "save"
    /\ toggles'[s].pc = "done"
    /\ toggles'[s].resp.status = 200

\* C26: no toggle is lost: every toggleSharing request that completes
\* successfully flips the stored isPublic of its note, so that after k of
\* them, in any interleaving, the stored isPublic is the initial one flipped
\* k times (only these requests write isPublic here).
C26_NoLostToggle ==
    [][\A s \in Slots :
        Completes(s)
            => notes'[toggles[s].id].isPublic = ~notes[toggles[s].id].isPublic]_vars

\* C25: whenever a step replaces the password of a user, the client that made
\* the request has given the correct answer to that user's security question
\* (in this session for the three handlers, in this request for the single
\* handler).
C25_ResetNeedsAnswer ==
    [][\A u \in Users :
        passwords'[u] # passwords[u] => <<reply'.user, u>> \in answered']_vars

\* C28: the pre-save hook makes at most 10 lookups, and when it has assigned
\* the uniqueId (this.uniqueId = uniqueId, before the insert) the uniqueId is
\* not empty and is the uniqueId of no stored user, also when the 10 random
\* candidates all collided and the timestamp fallback was used.
C28_HookAssignsFreshId ==
    /\ hook.attempts <= maxAttempts
    /\ hook.pc = "assigned" => hook.uniqueId # NoId /\ ~existingUser(hook.uniqueId)

\* The step is the handler of a request op of session user u.
RequestBy(op, u) == reply = NoReply /\ reply'.op = op /\ reply'.user = u

ReadByReceiver(id) ==
    /\ ~messages[id].isRead /\ messages'[id].isRead
    /\ \/ RequestBy("markAsRead", messages[id].receiver) /\ reply'.arg = id
       \/ RequestBy("getMessages", messages[id].receiver) /\ reply'.arg = messages[id].sender

DeletedByParty(id) ==
    \/ RequestBy("deleteMessage", messages[id].sender)
    \/ RequestBy("deleteMessage", messages[id].receiver)

CountIsExact ==
    \A u \in Members :
        RequestBy("getUnreadCount", u) /\ reply'.status = 200 => reply'.count = countDocuments(u)

\* C27: isRead of a message only changes from false to true, through
\* markAsRead on it or getMessages on its sender's conversation, asked by its
\* receiver; a message only disappears through deleteMessage asked by its
\* sender or its receiver; the unreadCount that getUnreadCount answers is the
\* number of stored unread messages of the user.
C27_MessagesChangeByTheirParties ==
    [][/\ \A id \in DOMAIN messages \cap DOMAIN messages' :
              messages'[id].isRead # messages[id].isRead => ReadByReceiver(id)
       /\ \A id \in DOMAIN messages \ DOMAIN messages' : DeletedByParty(id)
       /\ CountIsExact]_vars

DeletedByTestScript(id) == TestMessaging /\ id \in testMessages

\* C27, amended: as C27, except that a message whose sender and receiver are
\* both test users of test-messaging.js also disappears when that script runs.
C27_ExceptTestScript ==
    [][/\ \A id \in DOMAIN messages \cap DOMAIN messages' :
              messages'[id].isRead # messages[id].isRead => ReadByReceiver(id)
       /\ \A id \in DOMAIN messages \ DOMAIN messages' : DeletedByParty(id) \/ DeletedByTestScript(id)
       /\ CountIsExact]_vars

\* Witness of C27: a message is gone, another one has been read, and
\* getUnreadCount answers a count that is not zero.
C27_Witness ==
    /\ \E id \in 1..(nextMsg - 1) : id \notin DOMAIN messages
    /\ \E id \in DOMAIN messages : messages[id].isRead
    /\ reply.op = "getUnreadCount" /\ reply.status = 200 /\ reply.count > 0

\* C29: a failed attempt leaves exactly one timer and no attempt in progress,
\* so there is always exactly one attempt or one timer until the connection
\* is open; if the database accepts connections from some point on, the
\* connection is eventually open; once it is open it stays open and no timer
\* is pending.
C29_ConnectsEventually ==
    /\ [][conn.pc = "connecting" /\ conn'.pc # "connected" /\ conn' # conn
              => conn'.pc = "waiting" /\ conn'.timers = conn.timers + 1]_vars
    /\ [](conn.pc = "waiting" <=> conn.timers = 1)
    /\ [](conn.pc # "waiting" => conn.timers = 0)
    /\ [](conn.pc = "connected" => [](conn.pc = "connected" /\ conn.timers = 0))
    /\ (<>[]accepting => <>(conn.pc = "connected"))

\* Witness of C29: the connection is open after an attempt failed and the
\* timer it left started another one.
C29_Witness == conn.pc = "connected" /\ conn.retried /\ conn.timers = 0

=========================================================================
